---- MODULE Spec2Model ----
(***************************************************************************)
(* Model of Browser/utils/data_types.py (convert_typed_dict, the typed     *)
(* dictionaries and the alias enums) and of Coverage.stop_coverage in      *)
(* Browser/keywords/coverage.py.                                           *)
(***************************************************************************)
EXTENDS Integers, Sequences, FiniteSets, TLC

VARIABLES
    scenario,    \* which operation this run exercises: "convert", "enum", "coverage"
    data_type,   \* convert_typed_dict: the TypedDict class passed as data_type
    key,         \* convert_typed_dict: the key argument
    params,      \* convert_typed_dict: params, a mapping name -> heap address
    heap,        \* the objects params refers to; every dict is a sequence of <<key, value>>
    order,       \* iteration order of the frozensets __required_keys__/__optional_keys__
    calls,       \* number of convert_typed_dict calls made so far
    outcome,     \* how the last call ended
    enum,        \* the Enum class looked up by name
    token,       \* the name of the last lookup E[token]
    resolved,    \* the member E[token] evaluated to, or KeyError
    prev_token,  \* the name of the lookup before
    prev_resolved,
    lookups,     \* number of lookups made so far
    cov_dir,     \* response.body of StopCoverage: the coverage folder
    cov_files,   \* the directory listing of that folder
    stop_requests, \* number of StopCoverage requests sent
    cov_returned \* what stop_coverage returned

vars == <<scenario, data_type, key, params, heap, order, calls, outcome,
          enum, token, resolved, prev_token, prev_resolved, lookups,
          cov_dir, cov_files, stop_requests, cov_returned>>

convertVars == <<data_type, key, params, heap, order, calls, outcome>>
enumVars == <<enum, token, resolved, prev_token, prev_resolved, lookups>>
covVars == <<cov_dir, cov_files, stop_requests, cov_returned>>

----------------------------------------------------------------------------
\* Bounds of the model.

\* Largest number of entries of a raw record.
MaxLen == 3

\* Largest number of successive convert_typed_dict calls on the same params.
MaxCalls == 2

\* Largest number of successive lookups on the same enum.
MaxLookups == 2

\* Largest number of files in the coverage folder.
MaxFiles == 2

----------------------------------------------------------------------------
\* Python values: int n, float (n counts tenths), str s, dict (s is its literal).

IntV(n) == [t |-> "int", n |-> n, s |-> ""]
FloatV(tenths) == [t |-> "float", n |-> tenths, s |-> ""]
StrV(s) == [t |-> "str", n |-> 0, s |-> s]
DictV(s) == [t |-> "dict", n |-> 0, s |-> s]

Abs(n) == IF n < 0 THEN -n ELSE n

\* int(float): truncation towards zero.
Trunc(tenths) == IF tenths < 0 THEN -(Abs(tenths) \div 10) ELSE tenths \div 10

\* repr of a float with one decimal digit.
FloatRepr(tenths) ==
    (IF tenths < 0 THEN "-" ELSE "") \o ToString(Abs(tenths) \div 10)
        \o "." \o ToString(Abs(tenths) % 10)

\* The numeric literals float() parses, with their value in tenths.
FloatLiterals == {<<"7", 70>>, <<"10", 100>>, <<"-1.5", -15>>, <<"10.0", 100>>}
\* The numeric literals int() parses.
IntLiterals == {<<"7", 7>>, <<"10", 10>>}

Parsed(literals, s) == CHOOSE p \in literals : p[1] = s
Parses(literals, s) == \E p \in literals : p[1] = s

Ok(v) == [ok |-> TRUE, val |-> v, exc |-> ""]
Err(e) == [ok |-> FALSE, val |-> StrV(""), exc |-> e]

\* A mutant of Construct: the raw value is stored without calling the field type.
MutConstructRaw(ty, v) == Ok(v)

\* struct[field](value): the field type's constructor applied to a raw value.
Construct(ty, v) ==
    CASE ty = "float" ->
            (CASE v.t = "int" -> Ok(FloatV(10 * v.n))
               [] v.t = "float" -> Ok(v)
               [] v.t = "str" ->
                    IF Parses(FloatLiterals, v.s)
                    THEN Ok(FloatV(Parsed(FloatLiterals, v.s)[2]))
                    ELSE Err("ValueError")
               [] OTHER -> Err("TypeError"))
      [] ty = "int" ->
            (CASE v.t = "int" -> Ok(v)
               [] v.t = "float" -> Ok(IntV(Trunc(v.n)))
               [] v.t = "str" ->
                    IF Parses(IntLiterals, v.s)
                    THEN Ok(IntV(Parsed(IntLiterals, v.s)[2]))
                    ELSE Err("ValueError")
               [] OTHER -> Err("TypeError"))
      [] ty = "str" ->
            (CASE v.t = "int" -> Ok(StrV(ToString(v.n)))
               [] v.t = "float" -> Ok(StrV(FloatRepr(v.n)))
               [] v.t = "str" -> Ok(v)
               [] OTHER -> Ok(StrV(v.s)))
      [] ty = "dict" ->
            (CASE v.t = "dict" -> Ok(v)
               [] v.t = "str" -> IF v.s = "" THEN Ok(DictV("{}")) ELSE Err("ValueError")
               [] OTHER -> Err("TypeError"))

----------------------------------------------------------------------------
\* The typed dictionaries: __required_keys__, __optional_keys__ (in declaration
\* order) and __annotations__.

BoundingBox ==
    [name |-> "BoundingBox", required |-> <<>>,
     optional |-> <<"x", "y", "width", "height">>,
     annotations |-> <<<<"x", "float">>, <<"y", "float">>,
                       <<"width", "float">>, <<"height", "float">>>>]

Coordinates ==
    [name |-> "Coordinates", required |-> <<>>,
     optional |-> <<"x", "y">>,
     annotations |-> <<<<"x", "float">>, <<"y", "float">>>>]

MouseOptionsDict ==
    [name |-> "MouseOptionsDict", required |-> <<>>,
     optional |-> <<"x", "y", "options">>,
     annotations |-> <<<<"x", "float">>, <<"y", "float">>, <<"options", "dict">>>>]

ViewportDimensions ==
    [name |-> "ViewportDimensions", required |-> <<"width", "height">>,
     optional |-> <<>>,
     annotations |-> <<<<"width", "int">>, <<"height", "int">>>>]

HttpCredentials ==
    [name |-> "HttpCredentials", required |-> <<"username", "password">>,
     optional |-> <<>>,
     annotations |-> <<<<"username", "str">>, <<"password", "str">>>>]

GeoLocation ==
    [name |-> "GeoLocation", required |-> <<"longitude", "latitude">>,
     optional |-> <<"accuracy">>,
     annotations |-> <<<<"longitude", "float">>, <<"latitude", "float">>,
                       <<"accuracy", "float">>>>]

Proxy ==
    [name |-> "Proxy", required |-> <<"server">>,
     optional |-> <<"bypass", "Username", "password">>,
     annotations |-> <<<<"server", "str">>, <<"bypass", "str">>,
                       <<"Username", "str">>, <<"password", "str">>>>]

TypedDicts == {BoundingBox, Coordinates, MouseOptionsDict, ViewportDimensions,
               HttpCredentials, GeoLocation, Proxy}

Range(seq) == {seq[i] : i \in DOMAIN seq}

Fields(S) == Range(S.required) \cup Range(S.optional)

\* struct[field]
FieldType(S, f) == (CHOOSE a \in Range(S.annotations) : a[1] = f)[2]

----------------------------------------------------------------------------
\* str.lower() on the key spellings of the model: the spellings below are the
\* ones with an upper-case letter; every other key is already lower case.

LowerTable ==
    {<<"X", "x">>, <<"Y", "y">>, <<"WIDTH", "width">>, <<"HEIGHT", "height">>,
     <<"OPTIONS", "options">>, <<"Username", "username">>,
     <<"PASSWORD", "password">>,
     <<"LONGITUDE", "longitude">>, <<"LATITUDE", "latitude">>,
     <<"ACCURACY", "accuracy">>, <<"SERVER", "server">>, <<"BYPASS", "bypass">>}

LowerMap == [k \in {p[1] : p \in LowerTable} |-> (CHOOSE p \in LowerTable : p[1] = k)[2]]

lower(k) == IF k \in DOMAIN LowerMap THEN LowerMap[k] ELSE k

\* Python dicts keep insertion order: a dict is a sequence of <<key, value>>.
DictKeys(d) == {d[i][1] : i \in DOMAIN d}
DictHas(d, k) == \E i \in DOMAIN d : d[i][1] = k
DictGet(d, k) == d[CHOOSE i \in DOMAIN d : d[i][1] = k][2]
\* d[k] = v: a present key keeps its place and takes the new value.
DictSet(d, k, v) ==
    IF DictHas(d, k)
    THEN [i \in DOMAIN d |-> IF d[i][1] = k THEN <<k, v>> ELSE d[i]]
    ELSE Append(d, <<k, v>>)

----------------------------------------------------------------------------
\* convert_typed_dict

\* A mutant of LowerKeys: the keys are taken as given, without lower().
MutKeepKeys(raw) == raw

RECURSIVE FirstWinsFrom(_, _, _)
FirstWinsFrom(raw, i, dictionary) ==
    IF i > Len(raw) THEN dictionary
    ELSE FirstWinsFrom(raw, i + 1,
            IF DictHas(dictionary, lower(raw[i][1])) THEN dictionary
            ELSE DictSet(dictionary, lower(raw[i][1]), raw[i][2]))

\* A mutant of LowerKeys: of two keys that fold to the same key the first one wins.
MutFirstWins(raw) == FirstWinsFrom(raw, 1, <<>>)

RECURSIVE LowerKeysFrom(_, _, _)
LowerKeysFrom(raw, i, dictionary) ==
    IF i > Len(raw) THEN dictionary
    ELSE LowerKeysFrom(raw, i + 1, DictSet(dictionary, lower(raw[i][1]), raw[i][2]))

\* dictionary = {k.lower(): v for k, v in params[key].items()}
LowerKeys(raw) == LowerKeysFrom(raw, 1, <<>>)

\* The result of the loops: the typed_dict built so far, and the exception raised.
Built(typed) == [ok |-> TRUE, typed |-> typed, exc |-> "", field |-> ""]
Failed(typed, exc, field) == [ok |-> FALSE, typed |-> typed, exc |-> exc, field |-> field]

RECURSIVE MutReqLoopSkipMissing(_, _, _, _, _)
\* A mutant of ReqLoop: a missing required key is skipped like an optional one.
MutReqLoopSkipMissing(S, dictionary, keys, i, typed) ==
    IF i > Len(keys) THEN Built(typed)
    ELSE IF ~DictHas(dictionary, lower(keys[i]))
         THEN MutReqLoopSkipMissing(S, dictionary, keys, i + 1, typed)
         ELSE LET c == Construct(FieldType(S, keys[i]), DictGet(dictionary, lower(keys[i])))
              IN IF ~c.ok THEN Failed(typed, c.exc, keys[i])
                 ELSE MutReqLoopSkipMissing(S, dictionary, keys, i + 1,
                                            DictSet(typed, keys[i], c.val))

RECURSIVE ReqLoop(_, _, _, _, _)
\* for req_key in data_type.__required_keys__: ...
ReqLoop(S, dictionary, keys, i, typed) ==
    IF i > Len(keys) THEN Built(typed)
    ELSE LET req_key == keys[i] IN
         IF ~DictHas(dictionary, lower(req_key))
         THEN Failed(typed, "RuntimeError", req_key)
         ELSE LET c == Construct(FieldType(S, req_key), DictGet(dictionary, lower(req_key)))
              IN IF ~c.ok THEN Failed(typed, c.exc, req_key)
                 ELSE ReqLoop(S, dictionary, keys, i + 1, DictSet(typed, req_key, c.val))

RECURSIVE MutOptLoopSkipBad(_, _, _, _, _)
\* A mutant of OptLoop: an optional value that cannot be converted is left out.
MutOptLoopSkipBad(S, dictionary, keys, i, typed) ==
    IF i > Len(keys) THEN Built(typed)
    ELSE IF ~DictHas(dictionary, lower(keys[i]))
         THEN MutOptLoopSkipBad(S, dictionary, keys, i + 1, typed)
         ELSE LET c == Construct(FieldType(S, keys[i]), DictGet(dictionary, lower(keys[i])))
              IN IF ~c.ok THEN MutOptLoopSkipBad(S, dictionary, keys, i + 1, typed)
                 ELSE MutOptLoopSkipBad(S, dictionary, keys, i + 1,
                                        DictSet(typed, keys[i], c.val))

RECURSIVE OptLoop(_, _, _, _, _)
\* for opt_key in data_type.__optional_keys__: ...
OptLoop(S, dictionary, keys, i, typed) ==
    IF i > Len(keys) THEN Built(typed)
    ELSE LET opt_key == keys[i] IN
         IF ~DictHas(dictionary, lower(opt_key))
         THEN OptLoop(S, dictionary, keys, i + 1, typed)
         ELSE LET c == Construct(FieldType(S, opt_key), DictGet(dictionary, lower(opt_key)))
              IN IF ~c.ok THEN Failed(typed, c.exc, opt_key)
                 ELSE OptLoop(S, dictionary, keys, i + 1, DictSet(typed, opt_key, c.val))

Reverse(seq) == [i \in DOMAIN seq |-> seq[Len(seq) + 1 - i]]

\* __required_keys__ and __optional_keys__ are frozensets: their iteration order
\* is not the declaration order in general.  The model explores the declaration
\* order and its reverse.
Orders == {"declared", "reversed"}
Iter(keys, ord) == IF ord = "declared" THEN keys ELSE Reverse(keys)

\* A mutant of Body: a raw key that matches no field is an error.
MutBodyStrict(S, raw, ord) ==
    LET dictionary == LowerKeys(raw)
        known == {lower(f) : f \in Fields(S)}
        r == ReqLoop(S, dictionary, Iter(S.required, ord), 1, <<>>)
    IN  IF \E k \in DictKeys(dictionary) : k \notin known
        THEN Failed(<<>>, "RuntimeError", CHOOSE k \in DictKeys(dictionary) : k \notin known)
        ELSE IF ~r.ok THEN r
             ELSE OptLoop(S, dictionary, Iter(S.optional, ord), 1, r.typed)

\* Lines 24-38 of convert_typed_dict on the raw record params[key].
Body(S, raw, ord) ==
    LET dictionary == LowerKeys(raw)
        r == ReqLoop(S, dictionary, Iter(S.required, ord), 1, <<>>)
    IN  IF ~r.ok THEN r
        ELSE OptLoop(S, dictionary, Iter(S.optional, ord), 1, r.typed)

\* A mutant of Rebind: the raw record is overwritten in place.
MutUpdateInPlace(h, p, k, typed) ==
    [heap |-> [h EXCEPT ![p[k]] = typed], params |-> p]

\* typed_dict = data_type() ... params[key] = typed_dict: typed_dict is a new
\* object, and params[key] is bound to it.
Rebind(h, p, k, typed) ==
    [heap |-> Append(h, typed), params |-> [p EXCEPT ![k] = Len(h) + 1]]

Returned == [kind |-> "returned", exc |-> "", field |-> ""]
Raised(exc, field) == [kind |-> "raised", exc |-> exc, field |-> field]
NoCall == [kind |-> "none", exc |-> "", field |-> ""]

----------------------------------------------------------------------------
\* The alias enums.  A definition is <<name, kind, argument>>: kind "auto" is
\* auto(), kind "name" is an earlier name of the class body (CURRENT = ACTIVE),
\* kind "str" is a string literal.

SelectionType ==
    [name |-> "SelectionType",
     body |-> <<<<"ACTIVE", "auto", "">>, <<"CURRENT", "name", "ACTIVE">>,
                <<"ALL", "auto", "">>, <<"ANY", "name", "ALL">>>>]

CookieType ==
    [name |-> "CookieType",
     body |-> <<<<"dictionary", "auto", "">>, <<"dict", "name", "dictionary">>,
                <<"string", "auto", "">>, <<"str", "name", "string">>>>]

SelectAttribute ==
    [name |-> "SelectAttribute",
     body |-> <<<<"value", "auto", "">>, <<"label", "auto", "">>,
                <<"text", "name", "label">>, <<"index", "auto", "">>>>]

AssertionOperator ==
    [name |-> "AssertionOperator",
     body |-> <<<<"equal", "str", "==">>, <<"==", "str", "==">>,
                <<"should be", "str", "==">>, <<"inequal", "str", "!=">>,
                <<"!=", "str", "!=">>, <<"should not be", "str", "!=">>,
                <<"less than", "str", "<">>, <<"<", "str", "<">>,
                <<"greater than", "str", ">">>, <<">", "str", ">">>,
                <<"<=", "str", "<=">>, <<">=", "str", ">=">>,
                <<"contains", "str", "*=">>, <<"*=", "str", "*=">>,
                <<"starts", "str", "^=">>, <<"^=", "str", "^=">>,
                <<"should start with", "str", "^=">>, <<"ends", "str", "$=">>,
                <<"should end with", "str", "$=">>, <<"$=", "str", "$=">>,
                <<"matches", "str", "$">>, <<"validate", "str", "validate">>,
                <<"then", "str", "then">>, <<"evaluate", "str", "then">>>>]

AliasEnums == {SelectionType, CookieType, SelectAttribute, AssertionOperator}

\* The names a class body defines.
Names(E) == {E.body[i][1] : i \in DOMAIN E.body}

RECURSIVE Namespace(_, _, _)
\* The class namespace after the body ran: <<name, value>> in definition order.
\* auto() is the last value plus one, or 1 for the first.
Namespace(body, i, ns) ==
    IF i > Len(body) THEN ns
    ELSE LET d == body[i]
             v == CASE d[2] = "auto" ->
                          IF ns = <<>> THEN IntV(1) ELSE IntV(ns[Len(ns)][2].n + 1)
                    [] d[2] = "name" -> DictGet(ns, d[3])
                    [] OTHER -> StrV(d[3])
         IN Namespace(body, i + 1, Append(ns, <<d[1], v>>))

\* The value a name is defined with.
DefinedValue(E, name) == DictGet(Namespace(E.body, 1, <<>>), name)

Member(name, value) == [ok |-> TRUE, name |-> name, value |-> value]
KeyError == [ok |-> FALSE, name |-> "", value |-> StrV("")]
NoLookup == [ok |-> FALSE, name |-> "-", value |-> StrV("")]

RECURSIVE MutNoAliases(_, _, _)
\* A mutant of MemberMap: every name becomes a member of its own.
MutNoAliases(ns, i, map) ==
    IF i > Len(ns) THEN map
    ELSE MutNoAliases(ns, i + 1, Append(map, <<ns[i][1], Member(ns[i][1], ns[i][2])>>))

RECURSIVE MemberMap(_, _, _)
\* _member_map_: a name whose value an earlier member has is an alias of that
\* member; any other name is a new member.
MemberMap(ns, i, map) ==
    IF i > Len(ns) THEN map
    ELSE LET name == ns[i][1]
             value == ns[i][2]
             earlier == {j \in DOMAIN map : map[j][2].value = value}
             member == IF earlier = {}
                       THEN Member(name, value)
                       ELSE map[CHOOSE j \in earlier : \A l \in earlier : j <= l][2]
         IN MemberMap(ns, i + 1, Append(map, <<name, member>>))

member_map(E) == MemberMap(Namespace(E.body, 1, <<>>), 1, <<>>)

\* The members of E: list(E), without the aliases.
Members(E) == {p[2] : p \in Range(member_map(E))}

\* A mutant of Resolve: only the members' own names are accepted, not the aliases.
MutResolveOwnNames(E, name) ==
    IF \E m \in Members(E) : m.name = name
    THEN CHOOSE m \in Members(E) : m.name = name
    ELSE KeyError

\* E[name]
Resolve(E, name) ==
    IF DictHas(member_map(E), name) THEN DictGet(member_map(E), name) ELSE KeyError

\* The names looked up: the defined names, the string values, and a name that
\* is not defined.
Tokens(E) ==
    Names(E) \cup {E.body[i][3] : i \in {j \in DOMAIN E.body : E.body[j][2] = "str"}}
        \cup {"unknown"}

----------------------------------------------------------------------------
\* Coverage.stop_coverage.  A file name is <<stem, suffix>>.

\* coverage_dir.glob("*.html"), in the order of the directory listing
Glob(files) == SelectSeq(files, LAMBDA f : f[2] = ".html")

DirPath(dir) == [kind |-> "dir", dir |-> dir, file |-> <<"", "">>]
FilePath(dir, f) == [kind |-> "file", dir |-> dir, file |-> f]
NotReturned == [kind |-> "none", dir |-> "", file |-> <<"", "">>]

\* Lines 108-118: the value stop_coverage returns.
StopCoverageResult(dir, files) ==
    LET coverage_dir == DirPath(dir)
        coverage_index_html == Glob(files)
    IN  IF coverage_index_html = <<>>
        THEN coverage_dir
        ELSE FilePath(dir, coverage_index_html[1])

----------------------------------------------------------------------------
\* The inputs of the model.

\* The raw values a caller supplies.
Values == {IntV(10), FloatV(-15), StrV("7"), DictV("{}")}

\* The raw key spellings a caller supplies, in the order in which a raw record
\* lists them: two spellings of every field name, the lower-case one first for
\* some fields and last for the others, and a key that is no field name.
AllKeys ==
    <<"x", "X", "Y", "y", "width", "WIDTH", "HEIGHT", "height",
      "options", "OPTIONS", "Username", "username", "password", "PASSWORD",
      "LONGITUDE", "longitude", "latitude", "LATITUDE", "ACCURACY", "accuracy",
      "server", "SERVER", "BYPASS", "bypass", "extra">>

\* The spellings of the fields of S, and a key that matches no field of S.
RawKeys ==
    [S \in TypedDicts |->
        SelectSeq(AllKeys,
                  LAMBDA k : k = "extra" \/ \E f \in Fields(S) : lower(f) = lower(k))]

\* The sets of at most MaxLen places of a key sequence of length n.
Selections == [n \in 0..Len(AllKeys) |-> {x \in SUBSET (1..n) : Cardinality(x) <= MaxLen}]

RECURSIVE Entries(_, _, _, _)
\* A raw record: the entries of U at the places sel, in the order of U, with
\* the values vals.
Entries(U, sel, vals, i) ==
    IF i > Len(U) THEN <<>>
    ELSE (IF i \in sel THEN <<<<U[i], vals[i]>>>> ELSE <<>>)
            \o Entries(U, sel, vals, i + 1)

\* An entry of params that no call is about.
OtherObject == <<<<"timeout", IntV(10)>>>>

InitConvertVars ==
    /\ key = "record"
    /\ calls = 0
    /\ outcome = NoCall
    /\ data_type \in TypedDicts
    /\ order \in Orders
    /\ \/ /\ heap = <<OtherObject>>
          /\ params = [k \in {"other"} |-> 1]
       \/ /\ \E sel \in Selections[Len(RawKeys[data_type])] :
                \E vals \in [sel -> Values] :
                   heap = <<OtherObject, Entries(RawKeys[data_type], sel, vals, 1)>>
          /\ params = [k \in {"other", "record"} |-> IF k = "other" THEN 1 ELSE 2]

IdleConvertVars ==
    /\ key = ""
    /\ calls = 0
    /\ outcome = NoCall
    /\ data_type = Coordinates
    /\ order = "declared"
    /\ heap = <<>>
    /\ params = <<>>

InitEnumVars ==
    /\ enum \in AliasEnums
    /\ token = ""
    /\ resolved = NoLookup
    /\ prev_token = ""
    /\ prev_resolved = NoLookup
    /\ lookups = 0

IdleEnumVars ==
    /\ enum = SelectionType
    /\ token = ""
    /\ resolved = NoLookup
    /\ prev_token = ""
    /\ prev_resolved = NoLookup
    /\ lookups = 0

\* The names of the files a coverage folder may hold.
FileNames == {<<"index", ".html">>, <<"report", ".html">>,
              <<"coverage", ".json">>, <<"raw", "">>}

\* Directory listings: distinct file names, at most MaxFiles of them.
Listings ==
    {l \in UNION {[1..n -> FileNames] : n \in 0..MaxFiles} :
        \A i, j \in DOMAIN l : i # j => l[i] # l[j]}

InitCovVars ==
    /\ cov_dir \in {"out/coverage_reports/page=1", "out/coverage_reports/a_page=2"}
    /\ cov_files \in Listings
    /\ stop_requests = 0
    /\ cov_returned = NotReturned

IdleCovVars ==
    /\ cov_dir = ""
    /\ cov_files = <<>>
    /\ stop_requests = 0
    /\ cov_returned = NotReturned

Init ==
    \/ scenario = "convert" /\ InitConvertVars /\ IdleEnumVars /\ IdleCovVars
    \/ scenario = "enum" /\ IdleConvertVars /\ InitEnumVars /\ IdleCovVars
    \/ scenario = "coverage" /\ IdleConvertVars /\ IdleEnumVars /\ InitCovVars

----------------------------------------------------------------------------
\* The operations.

\* convert_typed_dict(data_type, params, key)
ConvertTypedDict ==
    /\ scenario = "convert"
    /\ calls < MaxCalls
    /\ calls' = calls + 1
    /\ IF key \notin DOMAIN params
       THEN /\ outcome' = Returned
            /\ UNCHANGED <<params, heap>>
       ELSE \E r \in {Body(data_type, heap[params[key]], order)} :
               IF r.ok
               THEN \E b \in {Rebind(heap, params, key, r.typed)} :
                       /\ heap' = b.heap
                       /\ params' = b.params
                       /\ outcome' = Returned
               ELSE /\ outcome' = Raised(r.exc, r.field)
                    /\ UNCHANGED <<params, heap>>
    /\ UNCHANGED <<scenario, data_type, key, order>>
    /\ UNCHANGED <<enumVars, covVars>>

\* enum[name]
Lookup ==
    /\ scenario = "enum"
    /\ lookups < MaxLookups
    /\ \E name \in Tokens(enum) :
          /\ token' = name
          /\ resolved' = Resolve(enum, name)
    /\ prev_token' = token
    /\ prev_resolved' = resolved
    /\ lookups' = lookups + 1
    /\ UNCHANGED <<scenario, enum, convertVars, covVars>>

\* Coverage.stop_coverage()
StopCoverage ==
    /\ scenario = "coverage"
    /\ cov_returned = NotReturned
    /\ stop_requests' = stop_requests + 1
    /\ cov_returned' = StopCoverageResult(cov_dir, cov_files)
    /\ UNCHANGED <<scenario, cov_dir, cov_files, convertVars, enumVars>>

Next == ConvertTypedDict \/ Lookup \/ StopCoverage

Spec == Init /\ [][Next]_vars

----------------------------------------------------------------------------
\* Vocabulary of the properties.

\* A step of convert_typed_dict.
ConvertStep == scenario = "convert" /\ calls' = calls + 1
\* A step of convert_typed_dict with key in params.
KeyedStep == ConvertStep /\ key \in DOMAIN params

\* R supplies field f, comparing keys ignoring case.
Supplies(R, f) == \E i \in DOMAIN R : lower(R[i][1]) = lower(f)
\* Raw key k matches a field of S, ignoring case.
MatchesField(S, k) == \E f \in Fields(S) : lower(f) = lower(k)
FieldOf(S, k) == CHOOSE f \in Fields(S) : lower(f) = lower(k)
\* The entry of R for f that comes last in R.
LastEntry(R, f) ==
    CHOOSE i \in DOMAIN R :
        /\ lower(R[i][1]) = lower(f)
        /\ \A j \in DOMAIN R : j > i => lower(R[j][1]) # lower(f)
Convertible(S, f, v) == Construct(FieldType(S, f), v).ok
\* Two distinct keys of R are equal after case folding.
HasCollision(R) ==
    \E i, j \in DOMAIN R : i # j /\ lower(R[i][1]) = lower(R[j][1])
MissingRequired(S, R) == {f \in Range(S.required) : ~Supplies(R, f)}
\* The fields R supplies with a value (the last one given) that cannot be converted.
BadFields(S, R) ==
    {f \in Fields(S) : Supplies(R, f) /\ ~Convertible(S, f, R[LastEntry(R, f)][2])}

RECURSIVE Keep(_, _, _)
\* The entries of R at the places P(i), in the order of R.
Keep(R, P(_), i) ==
    IF i > Len(R) THEN <<>>
    ELSE (IF P(i) THEN <<R[i]>> ELSE <<>>) \o Keep(R, P, i + 1)

\* R without the entries that a later entry with the same folded key overrides.
LastOnly(R) ==
    LET P(i) == \A j \in DOMAIN R : j > i => lower(R[j][1]) # lower(R[i][1])
    IN  Keep(R, P, 1)
\* R without the keys that match no field of S.
WithoutUnknown(S, R) == LET P(i) == MatchesField(S, R[i][1]) IN Keep(R, P, 1)

\* A dict as a mapping, without its insertion order.
AsMap(d) == Range(d)

----------------------------------------------------------------------------
\* C1: when the raw record supplies every required field of the schema (keys
\* compared ignoring case) and every value given for a field is convertible, the
\* call returns; the result's keys are the required fields and the supplied
\* optional fields in the schema's spelling, and every value is of the declared
\* type and is the constructor's result on a value the raw record gives for it.
C1_BuildsTypedRecord ==
    [][ (/\ KeyedStep
         /\ MissingRequired(data_type, heap[params[key]]) = {}
         /\ \A i \in DOMAIN heap[params[key]] :
               MatchesField(data_type, heap[params[key]][i][1]) =>
                  Convertible(data_type, FieldOf(data_type, heap[params[key]][i][1]),
                              heap[params[key]][i][2]))
        => LET R == heap[params[key]]
               T == heap'[params'[key]]
           IN  /\ outcome' = Returned
               /\ DictKeys(T) = {f \in Fields(data_type) : Supplies(R, f)}
               /\ Range(data_type.required) \subseteq DictKeys(T)
               /\ \A f \in DictKeys(T) :
                     /\ DictGet(T, f).t = FieldType(data_type, f)
                     /\ \E i \in DOMAIN R :
                           /\ lower(R[i][1]) = lower(f)
                           /\ DictGet(T, f) = Construct(FieldType(data_type, f), R[i][2]).val
      ]_vars

\* C1 witness: GeoLocation built from upper-case keys, the optional accuracy
\* given as the integer 10 and stored as the float 10.0.
C1_Witness ==
    /\ scenario = "convert" /\ calls = 1 /\ outcome = Returned
    /\ data_type = GeoLocation
    /\ key \in DOMAIN params /\ params[key] = 3
    /\ <<"LONGITUDE", IntV(10)>> \in Range(heap[2])
    /\ <<"ACCURACY", IntV(10)>> \in Range(heap[2])
    /\ AsMap(heap[3]) = {<<"longitude", FloatV(100)>>, <<"latitude", FloatV(-15)>>,
                         <<"accuracy", FloatV(100)>>}

\* C2 as stated: when the raw record lacks a required field, the call raises
\* the missing-required-field error naming a field that is missing, whatever
\* the values supplied.
C2_MissingAlwaysReported ==
    [][ (KeyedStep /\ MissingRequired(data_type, heap[params[key]]) # {})
        => /\ outcome'.kind = "raised"
           /\ outcome'.exc = "RuntimeError"
           /\ outcome'.field \in MissingRequired(data_type, heap[params[key]])
      ]_vars

\* C2 as amended: when the raw record lacks a required field the call raises and
\* never returns a record; it raises either the missing-required-field error
\* naming a missing required field, or the conversion error of a supplied
\* required field that the loop visits before the missing one.
C2_MissingAlwaysFails ==
    [][ (KeyedStep /\ MissingRequired(data_type, heap[params[key]]) # {})
        => LET R == heap[params[key]] IN
           /\ outcome'.kind = "raised"
           /\ params' = params /\ heap' = heap
           /\ \/ /\ outcome'.exc = "RuntimeError"
                 /\ outcome'.field \in MissingRequired(data_type, R)
              \/ /\ outcome'.exc \in {"ValueError", "TypeError"}
                 /\ outcome'.field \in Range(data_type.required)
                 /\ outcome'.field \in BadFields(data_type, R)
      ]_vars

\* C2 witness: a required field is missing and the call ended in the
\* conversion error of another required field.
C2_Witness ==
    /\ scenario = "convert" /\ calls = 1
    /\ key \in DOMAIN params
    /\ MissingRequired(data_type, heap[params[key]]) # {}
    /\ outcome.kind = "raised" /\ outcome.exc = "TypeError"

\* C3 as stated: when two distinct keys of the raw record are equal after case
\* folding, the call raises (a duplicate-key error) and returns no record built
\* from one of the colliding values.
C3_DuplicateKeyRejected ==
    [][ (KeyedStep /\ HasCollision(heap[params[key]])) => outcome'.kind = "raised" ]_vars

\* C3 as amended: colliding keys are no error; of the entries whose keys are
\* equal after case folding the one that comes last in the raw record replaces
\* the others, and the call ends as it does on the raw record without the
\* replaced entries.
C3_LastDuplicateWins ==
    [][ (KeyedStep /\ HasCollision(heap[params[key]]))
        => LET r == Body(data_type, LastOnly(heap[params[key]]), order) IN
           /\ (outcome'.kind = "returned") = r.ok
           /\ r.ok => heap'[params'[key]] = r.typed
           /\ ~r.ok => outcome' = Raised(r.exc, r.field)
      ]_vars

\* C3 witness: "x" and "X" both given, and the returned record holds the value
\* of the later one.
C3_Witness ==
    /\ scenario = "convert" /\ calls = 1 /\ outcome = Returned
    /\ data_type = Coordinates
    /\ key \in DOMAIN params /\ params[key] = 3
    /\ heap[2] = <<<<"x", IntV(10)>>, <<"X", FloatV(-15)>>>>
    /\ heap[3] = <<<<"x", FloatV(-15)>>>>

\* C4: two names of an alias enum that are defined with the same value resolve
\* to one and the same member, also when the two names are the same name looked
\* up twice; "equal", "==" and "should be" resolve to the member equal of
\* AssertionOperator, whose value is "==".
C4_AliasesResolveToOneMember ==
    (scenario = "enum" /\ lookups >= 2 /\ token \in Names(enum) /\ prev_token \in Names(enum))
    => /\ resolved.ok /\ prev_resolved.ok
       /\ DefinedValue(enum, token) = DefinedValue(enum, prev_token)
             => resolved = prev_resolved
       /\ resolved.value = DefinedValue(enum, token)
       /\ (enum = AssertionOperator /\ token \in {"equal", "==", "should be"})
             => resolved = Member("equal", StrV("=="))

\* C4 witness: "should be" looked up after "==", both resolved to equal.
C4_Witness ==
    /\ scenario = "enum" /\ enum = AssertionOperator /\ lookups = 2
    /\ prev_token = "==" /\ token = "should be"
    /\ resolved = prev_resolved /\ resolved.name = "equal"

\* C5: a call on a raw record that lacks a required field, or that gives a field
\* of the schema a value that cannot be converted, raises; and a call that
\* raises leaves params and every object it refers to as they were.
C5_AllOrNothing ==
    [][ /\ (/\ KeyedStep
            /\ \/ MissingRequired(data_type, heap[params[key]]) # {}
               \/ BadFields(data_type, heap[params[key]]) # {})
           => outcome'.kind = "raised"
        /\ (ConvertStep /\ outcome'.kind = "raised")
           => /\ params' = params
              /\ heap' = heap
              /\ outcome'.field \in MissingRequired(data_type, heap[params[key]])
                                       \cup BadFields(data_type, heap[params[key]])
      ]_vars

\* C5 witness: all required fields are given and convertible, an optional field
\* is not convertible: the call raised and params[key] is still the raw record.
C5_Witness ==
    /\ scenario = "convert" /\ calls = 1
    /\ data_type = GeoLocation
    /\ key \in DOMAIN params /\ params[key] = 2 /\ Len(heap) = 2
    /\ MissingRequired(data_type, heap[2]) = {}
    /\ BadFields(data_type, heap[2]) = {"accuracy"}
    /\ outcome = Raised("TypeError", "accuracy")

\* C6: the keys of the raw record that match no field of the schema are no
\* error and are not in the result: the call ends as it does on the raw record
\* without them, with the same record or the same exception.
C6_UnknownKeysIgnored ==
    [][ KeyedStep
        => LET r == Body(data_type, WithoutUnknown(data_type, heap[params[key]]), order) IN
           /\ (outcome'.kind = "returned") = r.ok
           /\ r.ok => /\ heap'[params'[key]] = r.typed
                      /\ DictKeys(heap'[params'[key]]) \subseteq Fields(data_type)
           /\ ~r.ok => outcome' = Raised(r.exc, r.field)
      ]_vars

\* C6 witness: the raw record holds the key "extra", the call returned a record
\* without it.
C6_Witness ==
    /\ scenario = "convert" /\ calls = 1 /\ outcome = Returned
    /\ data_type = ViewportDimensions
    /\ key \in DOMAIN params /\ params[key] = 3
    /\ DictKeys(heap[2]) = {"width", "HEIGHT", "extra"}
    /\ DictKeys(heap[3]) = {"width", "height"}

\* C7 as stated: stop_coverage sends one StopCoverage request and returns the
\* coverage folder, whether or not the folder holds an HTML file.
C7_ReturnsCoverageFolder ==
    (scenario = "coverage" /\ cov_returned # NotReturned)
    => stop_requests = 1 /\ cov_returned = DirPath(cov_dir)

\* C8: a call changes no object that params referred to before it (the raw
\* record keeps its keys and values), changes no entry of params other than
\* params[key], and with key not in params returns with params as it was.
C8_RawInputNotMutated ==
    [][ ConvertStep
        => /\ \A k \in DOMAIN params : heap'[params[k]] = heap[params[k]]
           /\ DOMAIN params' = DOMAIN params
           /\ \A k \in DOMAIN params : k # key => params'[k] = params[k]
           /\ key \notin DOMAIN params
                 => params' = params /\ heap' = heap /\ outcome' = Returned
      ]_vars

\* C8 witness: a call returned, params[key] is a new record and the raw record
\* still holds its upper-case key and its unconverted integer.
C8_Witness ==
    /\ scenario = "convert" /\ calls = 1 /\ outcome = Returned
    /\ key \in DOMAIN params /\ params[key] = 3 /\ params["other"] = 1
    /\ heap[1] = OtherObject
    /\ heap[2] = <<<<"X", IntV(10)>>>>
    /\ heap[3] = <<<<"x", FloatV(100)>>>>

\* C9: a call on the params that a successful call returned succeeds and
\* leaves params[key] with the same keys and the same values.
C9_SecondCallChangesNothing ==
    [][ (KeyedStep /\ calls >= 1 /\ outcome = Returned)
        => /\ outcome' = Returned
           /\ AsMap(heap'[params'[key]]) = AsMap(heap[params[key]])
      ]_vars

\* C9 witness: Proxy converted twice, the raw key "username" stored under the
\* declared name "Username" both times.
C9_Witness ==
    /\ scenario = "convert" /\ calls = 2 /\ outcome = Returned
    /\ data_type = Proxy
    /\ key \in DOMAIN params /\ params[key] = 4
    /\ DictKeys(heap[2]) = {"server", "username"}
    /\ DictKeys(heap[3]) = {"server", "Username"}
    /\ AsMap(heap[4]) = AsMap(heap[3])

\* C10 as stated: the value of every member of AssertionOperator is a name of
\* the enum, and looking it up resolves to that member.
C10_EverySymbolIsAName ==
    (scenario = "enum" /\ enum = AssertionOperator /\ lookups >= 1)
    => \A m \in Members(enum) : m.value = StrV(token) => resolved = m

\* C10 as amended: the value of every member of AssertionOperator other than
\* matches is a name of the enum, and looking it up resolves to that member;
\* the value "$" of matches is not a name, and looking it up is a KeyError.
C10_EverySymbolButMatchesIsAName ==
    (scenario = "enum" /\ enum = AssertionOperator /\ lookups >= 1)
    => /\ \A m \in Members(enum) :
             (m.value = StrV(token) /\ m.name # "matches") => resolved = m
       /\ token = "$" => resolved = KeyError

\* C10 witness: "*=" looked up, resolved to the member contains.
C10_Witness ==
    /\ scenario = "enum" /\ enum = AssertionOperator /\ lookups = 1
    /\ token = "*=" /\ resolved = Member("contains", StrV("*="))

====
